---- MODULE Spec2Model ----
(***************************************************************************)
(* Model of the whispers-api transcription service                         *)
(* (app/services/transcription.py, app/main.py): the model lifecycle of    *)
(* TranscriptionService (initialize / cleanup), one                        *)
(* transcribe_with_diarization or transcribe_simple call, and the          *)
(* alignment of transcript segments with diarization turns.                *)
(*                                                                         *)
(* Times are integers (the code only compares, subtracts and takes min/max *)
(* of them).  A text is a sequence of characters so that str.strip() is    *)
(* computed, not assumed.  A model handle is TRUE when loaded and FALSE    *)
(* when the attribute is None.  The "confidence" field of a segment is     *)
(* copied through unchanged by the code and decides nothing; it is left    *)
(* out of the records.                                                     *)
(***************************************************************************)
EXTENDS Integers, Sequences, FiniteSets, TLC

\* ------------------------------------------------------------------ bounds
MaxTime == 2
MaxSegs == 2
MaxTurns == 2
NumRequests == 2

\* ------------------------------------------------------------- input sets
DefaultSpeaker == "SPEAKER_00"

Speakers == {"SPEAKER_00", "SPEAKER_01"}

Texts == {<<" ">>, <<"a">>, <<" ", "b", " ">>}

Times == 0..MaxTime

TranscriptSegments ==
    {[start |-> s, end |-> e, text |-> t] :
        s \in Times, e \in Times, t \in Texts}

DiarizationTurns ==
    {[speaker |-> sp, start |-> s, end |-> e] :
        sp \in Speakers, s \in Times, e \in Times}

WellFormed(x) == x.start <= x.end

SeqsUpTo(S, n) == UNION {[1..k -> S] : k \in 0..n}

SegmentLists ==
    SeqsUpTo({x \in TranscriptSegments : WellFormed(x)}, MaxSegs)

TurnLists ==
    SeqsUpTo({x \in DiarizationTurns : WellFormed(x)}, MaxTurns)

\* The scan of a segment does not depend on the other segments: the
\* transcripts of at most one segment, used with every bounded turn list.
SingleSegmentLists ==
    {<<>>} \cup {<<x>> : x \in {y \in TranscriptSegments : WellFormed(y)}}

\* Small input sets used with the lifecycle specification.
LifeSegmentLists ==
    { <<>>,
      <<[start |-> 0, end |-> 1, text |-> <<" ">>]>>,
      <<[start |-> 0, end |-> 1, text |-> <<"a">>],
        [start |-> 1, end |-> 2, text |-> <<" ", "b", " ">>]>> }

LifeTurnLists ==
    { <<>>,
      <<[speaker |-> "SPEAKER_01", start |-> 1, end |-> 2],
        [speaker |-> "SPEAKER_00", start |-> 0, end |-> 1]>> }

\* The turn lists of at most one turn and the small lists above, used with
\* every bounded transcript.
FewTurnLists ==
    LifeTurnLists \cup {<<x>> : x \in {y \in DiarizationTurns : WellFormed(y)}}

\* ---------------------------------------------------------- pure helpers
Max(a, b) == IF a >= b THEN a ELSE b

Min(a, b) == IF a <= b THEN a ELSE b

IsSpace(c) == c = " "

RECURSIVE LStrip(_)
LStrip(s) ==
    IF s = <<>> THEN <<>>
    ELSE IF IsSpace(Head(s)) THEN LStrip(Tail(s)) ELSE s

RECURSIVE RStrip(_)
RStrip(s) ==
    IF s = <<>> THEN <<>>
    ELSE IF IsSpace(s[Len(s)]) THEN RStrip(SubSeq(s, 1, Len(s) - 1)) ELSE s

\* str.strip()
Strip(s) == RStrip(LStrip(s))

\* Mutant: a sort that puts an element before the elements of equal key
\* (not stable: every call reverses the order of ties).
RECURSIVE InsertByStartUnstable(_, _)
InsertByStartUnstable(x, sorted) ==
    IF sorted = <<>> THEN <<x>>
    ELSE IF x.start <= Head(sorted).start
         THEN <<x>> \o sorted
         ELSE <<Head(sorted)>> \o InsertByStartUnstable(x, Tail(sorted))

\* list.sort(key=lambda x: x["start"]): a stable ascending sort.
RECURSIVE InsertByStart(_, _)
InsertByStart(x, sorted) ==
    IF sorted = <<>> THEN <<x>>
    ELSE IF x.start < Head(sorted).start
         THEN <<x>> \o sorted
         ELSE <<Head(sorted)>> \o InsertByStart(x, Tail(sorted))

\* Mutant: the sort is left out and the turns are scanned as passed.
SortByStartMissing(s) == s

RECURSIVE SortByStart(_)
SortByStart(s) ==
    IF s = <<>> THEN <<>>
    ELSE InsertByStart(s[Len(s)], SortByStart(SubSeq(s, 1, Len(s) - 1)))

\* overlap_duration of a transcript segment with a diarization turn.
Overlap(seg, turn) ==
    Max(0, Min(seg.end, turn.end) - Max(seg.start, turn.start))

\* Mutant: max_overlap is never updated, so any later overlapping turn wins.
RECURSIVE ScanTurnsStaleMax(_, _, _, _)
ScanTurnsStaleMax(seg, turns, speaker, max_overlap) ==
    IF turns = <<>> THEN speaker
    ELSE IF Overlap(seg, Head(turns)) > max_overlap
         THEN ScanTurnsStaleMax(seg, Tail(turns), Head(turns).speaker,
                                max_overlap)
         ELSE ScanTurnsStaleMax(seg, Tail(turns), speaker, max_overlap)

\* Mutant: the comparison is >= instead of >.
RECURSIVE ScanTurnsGe(_, _, _, _)
ScanTurnsGe(seg, turns, speaker, max_overlap) ==
    IF turns = <<>> THEN speaker
    ELSE IF Overlap(seg, Head(turns)) >= max_overlap
         THEN ScanTurnsGe(seg, Tail(turns), Head(turns).speaker,
                          Overlap(seg, Head(turns)))
         ELSE ScanTurnsGe(seg, Tail(turns), speaker, max_overlap)

\* The inner loop over diarization_segments, with its two accumulators.
RECURSIVE ScanTurns(_, _, _, _)
ScanTurns(seg, turns, speaker, max_overlap) ==
    IF turns = <<>> THEN speaker
    ELSE IF Overlap(seg, Head(turns)) > max_overlap
         THEN ScanTurns(seg, Tail(turns), Head(turns).speaker,
                        Overlap(seg, Head(turns)))
         ELSE ScanTurns(seg, Tail(turns), speaker, max_overlap)

\* Mutant: the test "if not trans_text: continue" is left out.
RECURSIVE AlignLoopNoSkip(_, _)
AlignLoopNoSkip(segs, turns) ==
    IF segs = <<>> THEN <<>>
    ELSE <<[speaker |-> ScanTurns(Head(segs), turns, DefaultSpeaker, 0),
            start   |-> Head(segs).start,
            end     |-> Head(segs).end,
            text    |-> Strip(Head(segs).text)]>>
         \o AlignLoopNoSkip(Tail(segs), turns)

\* The outer loop over transcription_segments, on the sorted turns.
RECURSIVE AlignLoop(_, _)
AlignLoop(segs, turns) ==
    IF segs = <<>> THEN <<>>
    ELSE IF Strip(Head(segs).text) = <<>>
         THEN AlignLoop(Tail(segs), turns)
         ELSE <<[speaker |-> ScanTurns(Head(segs), turns, DefaultSpeaker, 0),
                 start   |-> Head(segs).start,
                 end     |-> Head(segs).end,
                 text    |-> Strip(Head(segs).text)]>>
              \o AlignLoop(Tail(segs), turns)


\* Mutant: the segments are counted, not the distinct speakers.
SpeakersCountSegments(aligned) == Len(aligned)

\* speakers_count = len(set(segment["speaker"] for segment in aligned_segments))
SpeakersCount(aligned) ==
    Cardinality({aligned[i].speaker : i \in 1..Len(aligned)})

\* TranscriptionResponse(status="success", transcription=[...], speakers_count=...)
MakeResponse(aligned) ==
    [status         |-> "success",
     transcription  |-> aligned,
     speakers_count |-> SpeakersCount(aligned)]

\* The loop of transcribe_simple building segments.
RECURSIVE SimpleSegments(_)
SimpleSegments(segs) ==
    IF segs = <<>> THEN <<>>
    ELSE IF Strip(Head(segs).text) = <<>>
         THEN SimpleSegments(Tail(segs))
         ELSE <<[start |-> Head(segs).start,
                 end   |-> Head(segs).end,
                 text  |-> Strip(Head(segs).text)]>>
              \o SimpleSegments(Tail(segs))

\* The loop of transcribe_simple building full_text (before the final strip).
RECURSIVE SimpleFullText(_)
SimpleFullText(segs) ==
    IF segs = <<>> THEN <<>>
    ELSE IF Strip(Head(segs).text) = <<>>
         THEN SimpleFullText(Tail(segs))
         ELSE Strip(Head(segs).text) \o <<" ">> \o SimpleFullText(Tail(segs))

\* Mutant: full_text is returned without the final strip().
MakeSimpleResponseNoStrip(segs) ==
    [status        |-> "success",
     transcription |-> SimpleSegments(segs),
     full_text     |-> SimpleFullText(segs)]

\* SimpleTranscriptionResponse(status="success", transcription=..., full_text=...)
MakeSimpleResponse(segs) ==
    [status        |-> "success",
     transcription |-> SimpleSegments(segs),
     full_text     |-> Strip(SimpleFullText(segs))]

NoResponse == [status |-> "none"]

\* ------------------------------------------------------------------ state
VARIABLES
    transcription_service,  \* main.py global: FALSE = None, TRUE = the service object
    whisper_model,          \* self.whisper_model        (FALSE = None)
    diarization_pipeline,   \* self.diarization_pipeline (FALSE = None)
    align_model,            \* self.align_model          (FALSE = None)
    align_metadata,         \* self.align_metadata       (FALSE = None)
    is_initialized,         \* self.is_initialized
    initPc,                 \* position inside initialize()
    lifecycle,              \* outcome of the latest lifecycle call on the service
    reqKind,                \* which service method the current call is
    reqPc,                  \* position inside the current call
    error,                  \* what the current call raised
    processed_audio,        \* temp file of _preprocess_audio
    transcription_result,   \* transcription_result["segments"]
    diarization,            \* turns yielded by the pipeline (itertracks)
    diarization_result,     \* diarization_result["segments"], a mutable list
    aligned_segments,       \* latest return value of the alignment
    previous_aligned,       \* return value of the alignment call before it
    align_calls,            \* alignment calls made with the current arguments
    response,               \* value returned by the current call
    caller,                 \* HTTP request whose service call is running (0: none)
    httpPc,                 \* per HTTP request: position inside its handler
    endpoint,               \* per HTTP request: the route it was sent to
    upload,                 \* per HTTP request: its upload temp file
    raisedBy,               \* per HTTP request: what its service call raised
    status                  \* per HTTP request: status code of its response (0: none yet)

svcVars == <<transcription_service, whisper_model, diarization_pipeline,
             align_model, align_metadata, is_initialized, initPc, lifecycle>>

reqVars == <<reqKind, reqPc, error, processed_audio, transcription_result,
             diarization, diarization_result, aligned_segments,
             previous_aligned, align_calls, response>>

dataVars == <<transcription_result, diarization, diarization_result,
              aligned_segments, previous_aligned, align_calls, response>>

httpVars == <<caller, httpPc, endpoint, upload, raisedBy, status>>

vars == <<transcription_service, whisper_model, diarization_pipeline,
          align_model, align_metadata, is_initialized, initPc, lifecycle,
          reqKind, reqPc, error, processed_audio, transcription_result,
          diarization, diarization_result, aligned_segments,
          previous_aligned, align_calls, response,
          caller, httpPc, endpoint, upload, raisedBy, status>>

Requests == 1..NumRequests

\* No HTTP request has arrived.
IdleHttp ==
    /\ caller = 0
    /\ httpPc = [r \in Requests |-> "idle"]
    /\ endpoint = [r \in Requests |-> "none"]
    /\ upload = [r \in Requests |-> "none"]
    /\ raisedBy = [r \in Requests |-> "none"]
    /\ status = [r \in Requests |-> 0]

IdleRequest ==
    /\ reqKind = "none"
    /\ reqPc = "idle"
    /\ error = "none"
    /\ processed_audio = "none"
    /\ transcription_result = <<>>
    /\ diarization = <<>>
    /\ diarization_result = <<>>
    /\ aligned_segments = <<>>
    /\ previous_aligned = <<>>
    /\ align_calls = 0
    /\ response = NoResponse

\* Module load of main.py: no service object yet.
Init ==
    /\ transcription_service = FALSE
    /\ whisper_model = FALSE
    /\ diarization_pipeline = FALSE
    /\ align_model = FALSE
    /\ align_metadata = FALSE
    /\ is_initialized = FALSE
    /\ initPc = "idle"
    /\ lifecycle = "uninitialized"
    /\ IdleRequest
    /\ IdleHttp


\* ------------------------------------------------------ service lifecycle
\* startup_event: construct the service (__init__) and call initialize().
StartupEvent ==
    /\ ~transcription_service
    /\ transcription_service' = TRUE
    /\ whisper_model' = FALSE
    /\ diarization_pipeline' = FALSE
    /\ align_model' = FALSE
    /\ align_metadata' = FALSE
    /\ is_initialized' = FALSE
    /\ initPc' = "load_whisper"
    /\ lifecycle' = "initializing"
    /\ UNCHANGED <<reqVars, httpVars>>

\* initialize() called again on the existing service object; the method
\* has no guard on is_initialized or on the handles.
Initialize ==
    /\ transcription_service
    /\ initPc = "idle"
    /\ initPc' = "load_whisper"
    /\ lifecycle' = "initializing"
    /\ UNCHANGED <<transcription_service, whisper_model, diarization_pipeline,
                   align_model, align_metadata, is_initialized>>
    /\ UNCHANGED <<reqVars, httpVars>>

\* Mutant: the except clause of initialize() does not re-raise; the call
\* returns as if it had succeeded.
InitializeSwallows ==
    /\ initPc' = "idle"
    /\ lifecycle' = "init_returned"
    /\ UNCHANGED is_initialized

\* except Exception: logger.error(...); raise   (initialize, and again in
\* startup_event): the error reaches the caller, nothing else is assigned.
InitializeRaises ==
    /\ initPc' = "idle"
    /\ lifecycle' = "init_raised"
    /\ UNCHANGED is_initialized

\* _load_whisper_model, as the first step of initialize().
LoadWhisperModel ==
    /\ initPc = "load_whisper"
    /\ \E ok \in BOOLEAN :
        IF ok
        THEN /\ whisper_model' = TRUE
             /\ initPc' = "load_diarization"
             /\ UNCHANGED <<lifecycle, is_initialized>>
        ELSE /\ InitializeRaises
             /\ UNCHANGED whisper_model
    /\ UNCHANGED <<transcription_service, diarization_pipeline, align_model,
                   align_metadata>>
    /\ UNCHANGED <<reqVars, httpVars>>

\* _load_diarization_pipeline.  Pipeline.from_pretrained returns either a
\* pipeline or None (it reports an inaccessible model that way), or raises;
\* on the cuda path .to() on None raises before anything is assigned.
LoadDiarizationPipeline ==
    /\ initPc = "load_diarization"
    /\ \E outcome \in {"pipeline", "none", "raise"} :
        IF outcome = "raise"
        THEN /\ InitializeRaises
             /\ UNCHANGED diarization_pipeline
        ELSE /\ diarization_pipeline' = (outcome = "pipeline")
             /\ initPc' = "load_alignment"
             /\ UNCHANGED <<lifecycle, is_initialized>>
    /\ UNCHANGED <<transcription_service, whisper_model, align_model,
                   align_metadata>>
    /\ UNCHANGED <<reqVars, httpVars>>

\* _load_alignment_model, then self.is_initialized = True and the return
\* of initialize().
LoadAlignmentModel ==
    /\ initPc = "load_alignment"
    /\ \E ok \in BOOLEAN :
        IF ok
        THEN /\ align_model' = TRUE
             /\ align_metadata' = TRUE
             /\ is_initialized' = TRUE
             /\ initPc' = "idle"
             /\ lifecycle' = "init_returned"
        ELSE /\ InitializeRaises
             /\ UNCHANGED <<align_model, align_metadata>>
    /\ UNCHANGED <<transcription_service, whisper_model, diarization_pipeline>>
    /\ UNCHANGED <<reqVars, httpVars>>

\* What cleanup() leaves in is_initialized.  The assignment
\* self.is_initialized = False is the last statement of the try block,
\* after torch.cuda.empty_cache(); when that call raises, the except
\* clause only logs and the flag keeps its value.
CleanupFlag(cache_ok) == IF cache_ok THEN FALSE ELSE is_initialized

\* cleanup() (called by shutdown_event).  It contains no await, so it is
\* one step.  It never raises: the except clause swallows the error.
Cleanup ==
    /\ transcription_service
    /\ initPc = "idle"
    /\ \E cache_ok \in BOOLEAN :
        /\ whisper_model' = FALSE
        /\ diarization_pipeline' = FALSE
        /\ align_model' = FALSE
        /\ is_initialized' = CleanupFlag(cache_ok)
    /\ lifecycle' = "cleaned"
    /\ UNCHANGED <<transcription_service, align_metadata, initPc>>
    /\ UNCHANGED <<reqVars, httpVars>>


\* ------------------------------------------------------- service requests
\* if not self.is_initialized: raise RuntimeError(...)
ReadyForDiarization == is_initialized

\* if not self.is_initialized or not self.whisper_model: raise RuntimeError(...)
ReadyForSimple == is_initialized /\ whisper_model

\* Mutant: the except clause swallows the error and the call goes on to
\* build a response from what it has.
RaiseSwallowed(stage) ==
    /\ reqPc' = "respond"
    /\ error' = stage

\* An exception leaves the current call at the given stage.
Raise(stage) ==
    /\ reqPc' = "raised"
    /\ error' = stage

\* transcribe_with_diarization: entry and readiness check.  initialize()
\* only awaits coroutines that never suspend, so on the event loop no call
\* enters while an initialize() is in flight.
EnterDiarization ==
    /\ reqKind' = "diarization"
    /\ IF ReadyForDiarization
       THEN /\ reqPc' = "preprocess"
            /\ UNCHANGED error
       ELSE Raise("not_ready")
    /\ UNCHANGED <<processed_audio, dataVars>>

\* transcribe_with_diarization called on the service directly.
CallTranscribeWithDiarization ==
    /\ transcription_service
    /\ initPc = "idle"
    /\ reqPc = "idle"
    /\ EnterDiarization
    /\ UNCHANGED <<svcVars, httpVars>>

\* _preprocess_audio: librosa.load, NamedTemporaryFile(delete=False), sf.write.
PreprocessAudio ==
    /\ reqPc = "preprocess"
    /\ \E outcome \in {"ok", "load_fails", "write_fails"} :
        /\ processed_audio' = IF outcome = "load_fails" THEN "none" ELSE "exists"
        /\ IF outcome = "ok"
           THEN /\ reqPc' = "transcribe"
                /\ UNCHANGED error
           ELSE Raise("preprocess")
    /\ UNCHANGED <<reqKind, dataVars>>
    /\ UNCHANGED <<svcVars, httpVars>>

\* _transcribe_audio: self.whisper_model.transcribe (an AttributeError when
\* the handle is None), then whisperx.align when the alignment model is set.
TranscribeAudio(results) ==
    /\ reqPc = "transcribe"
    /\ \/ /\ whisper_model
          /\ \E result \in results :
                transcription_result' = result
          /\ reqPc' = "diarize"
          /\ UNCHANGED error
       \/ /\ Raise("transcribe")
          /\ UNCHANGED transcription_result
    /\ UNCHANGED <<reqKind, processed_audio, diarization, diarization_result,
                   aligned_segments, previous_aligned, align_calls, response>>
    /\ UNCHANGED <<svcVars, httpVars>>

\* _perform_diarization: {"segments": []} when the pipeline is None, else
\* the list built from diarization.itertracks().
PerformDiarization(results) ==
    /\ reqPc = "diarize"
    /\ IF ~diarization_pipeline
       THEN /\ diarization' = <<>>
            /\ diarization_result' = <<>>
            /\ reqPc' = "align"
            /\ UNCHANGED error
       ELSE \/ /\ \E result \in results :
                    /\ diarization' = result
                    /\ diarization_result' = result
               /\ reqPc' = "align"
               /\ UNCHANGED error
            \/ /\ Raise("diarize")
               /\ UNCHANGED <<diarization, diarization_result>>
    /\ UNCHANGED <<reqKind, processed_audio, transcription_result,
                   aligned_segments, previous_aligned, align_calls, response>>
    /\ UNCHANGED <<svcVars, httpVars>>

\* One call of _align_transcription_with_diarization on the current
\* arguments: the list diarization_result["segments"] is sorted in place,
\* then the nested loop builds the return value.
AlignCall ==
    /\ diarization_result' = SortByStart(diarization_result)
    /\ aligned_segments' =
          AlignLoop(transcription_result, SortByStart(diarization_result))
    /\ previous_aligned' = aligned_segments
    /\ align_calls' = align_calls + 1

\* Step 4 of transcribe_with_diarization.
Align ==
    /\ reqPc = "align"
    /\ AlignCall
    /\ reqPc' = "respond"
    /\ UNCHANGED <<reqKind, error, processed_audio, transcription_result,
                   diarization, response>>
    /\ UNCHANGED <<svcVars, httpVars>>

\* A second call of _align_transcription_with_diarization, made with the
\* same two argument objects right after the first.
AlignAgain ==
    /\ reqPc = "respond"
    /\ align_calls = 1
    /\ AlignCall
    /\ UNCHANGED <<reqKind, reqPc, error, processed_audio,
                   transcription_result, diarization, response>>
    /\ UNCHANGED <<svcVars, httpVars>>

\* Step 5 of transcribe_with_diarization: speakers_count, removal of the
\* preprocessed file, and the TranscriptionResponse.
Respond ==
    /\ reqPc = "respond"
    /\ response' = MakeResponse(aligned_segments)
    /\ processed_audio' = "deleted"
    /\ reqPc' = "returned"
    /\ UNCHANGED <<reqKind, error, transcription_result, diarization,
                   diarization_result, aligned_segments, previous_aligned,
                   align_calls>>
    /\ UNCHANGED <<svcVars, httpVars>>

\* transcribe_simple: entry and readiness check.
EnterSimple ==
    /\ reqKind' = "simple"
    /\ IF ReadyForSimple
       THEN /\ reqPc' = "simple_load"
            /\ UNCHANGED error
       ELSE Raise("not_ready")
    /\ UNCHANGED <<processed_audio, dataVars>>

\* transcribe_simple called on the service directly.
CallTranscribeSimple ==
    /\ transcription_service
    /\ initPc = "idle"
    /\ reqPc = "idle"
    /\ EnterSimple
    /\ UNCHANGED <<svcVars, httpVars>>

\* transcribe_simple: librosa.load(audio_path, sr=16000).
SimpleLoad ==
    /\ reqPc = "simple_load"
    /\ \/ /\ reqPc' = "simple_transcribe"
          /\ UNCHANGED error
       \/ Raise("simple")
    /\ UNCHANGED <<reqKind, processed_audio, dataVars>>
    /\ UNCHANGED <<svcVars, httpVars>>

\* transcribe_simple: self.whisper_model.transcribe, the segment loop and
\* the SimpleTranscriptionResponse; any exception is re-raised as a
\* RuntimeError.
SimpleTranscribe(results) ==
    /\ reqPc = "simple_transcribe"
    /\ \/ /\ whisper_model
          /\ \E result \in results :
                /\ transcription_result' = result
                /\ response' = MakeSimpleResponse(result)
          /\ reqPc' = "returned"
          /\ UNCHANGED error
       \/ /\ Raise("simple")
          /\ UNCHANGED <<transcription_result, response>>
    /\ UNCHANGED <<reqKind, processed_audio, diarization, diarization_result,
                   aligned_segments, previous_aligned, align_calls>>
    /\ UNCHANGED <<svcVars, httpVars>>

\* The frame of a finished call is gone.
ResetCall ==
    /\ reqKind' = "none"
    /\ reqPc' = "idle"
    /\ error' = "none"
    /\ processed_audio' = "none"
    /\ transcription_result' = <<>>
    /\ diarization' = <<>>
    /\ diarization_result' = <<>>
    /\ aligned_segments' = <<>>
    /\ previous_aligned' = <<>>
    /\ align_calls' = 0
    /\ response' = NoResponse

\* The call is over (returned or raised); the next one starts afresh.
Finish ==
    /\ reqPc \in {"returned", "raised"}
    /\ ResetCall
    /\ UNCHANGED <<svcVars, httpVars>>


\* ------------------------------------------------------------ HTTP layer
\* Mutant: the service call gives the event loop back while it runs (as it
\* would if the model calls were awaited in an executor).
LoopBusyNever == FALSE

\* The handlers are coroutines on one event loop.  A service call, like
\* initialize(), only awaits coroutines that never suspend and calls the
\* models synchronously, so it keeps the loop from its entry to its return
\* or raise; no other handler runs a step meanwhile.
LoopBusy == reqPc # "idle" \/ initPc # "idle"

\* except Exception as e: raise HTTPException(status_code=500, ...)
ServiceErrorStatus(err) == 500

\* transcribe_audio / transcribe_audio_simple up to "await file.read()":
\* the service check (503), the extension and size checks (400, 413) and
\* the creation of the upload temp file with delete=False.
HttpEnter(r) ==
    /\ httpPc[r] = "idle"
    /\ ~LoopBusy
    /\ \E route \in {"transcribe", "simple"} :
       \E check \in {"ok", "bad_extension", "too_large"} :
          /\ endpoint' = [endpoint EXCEPT ![r] = route]
          /\ IF ~transcription_service
             THEN /\ status' = [status EXCEPT ![r] = 503]
                  /\ httpPc' = [httpPc EXCEPT ![r] = "done"]
                  /\ UNCHANGED upload
             ELSE IF check # "ok"
             THEN /\ status' = [status EXCEPT ![r] =
                                   IF check = "bad_extension" THEN 400 ELSE 413]
                  /\ httpPc' = [httpPc EXCEPT ![r] = "done"]
                  /\ UNCHANGED upload
             ELSE /\ httpPc' = [httpPc EXCEPT ![r] = "reading"]
                  /\ upload' = [upload EXCEPT ![r] = "exists"]
                  /\ UNCHANGED status
    /\ UNCHANGED <<caller, raisedBy>>
    /\ UNCHANGED <<svcVars, reqVars>>

\* The handler resumes after "await file.read()": either the read or the
\* write raises and the outer except clause answers 500, or the content is
\* written and the service method is called on the temp file's path.
HttpRead(r) ==
    /\ httpPc[r] = "reading"
    /\ ~LoopBusy
    /\ \/ /\ status' = [status EXCEPT ![r] = 500]
          /\ httpPc' = [httpPc EXCEPT ![r] = "done"]
          /\ UNCHANGED <<caller, reqVars>>
       \/ /\ caller' = r
          /\ httpPc' = [httpPc EXCEPT ![r] = "calling"]
          /\ IF endpoint[r] = "transcribe"
             THEN EnterDiarization
             ELSE EnterSimple
          /\ UNCHANGED status
    /\ UNCHANGED <<endpoint, upload, raisedBy>>
    /\ UNCHANGED svcVars

\* The service call came back to the handler.  Returned: os.unlink is
\* added as a background task and the result is the response.  Raised: the
\* inner except clause unlinks the temp file and re-raises, the outer one
\* turns the error into an HTTPException.
HttpRespond(r) ==
    /\ caller = r
    /\ httpPc[r] = "calling"
    /\ reqPc \in {"returned", "raised"}
    /\ raisedBy' = [raisedBy EXCEPT ![r] = error]
    /\ IF reqPc = "returned"
       THEN /\ status' = [status EXCEPT ![r] = 200]
            /\ httpPc' = [httpPc EXCEPT ![r] = "responding"]
            /\ UNCHANGED upload
       ELSE /\ status' = [status EXCEPT ![r] = ServiceErrorStatus(error)]
            /\ httpPc' = [httpPc EXCEPT ![r] = "done"]
            /\ upload' = [upload EXCEPT ![r] = "deleted"]
    /\ caller' = 0
    /\ ResetCall
    /\ UNCHANGED endpoint
    /\ UNCHANGED svcVars

\* background_tasks: os.unlink(temp_file_path), run after the response.
BackgroundTask(r) ==
    /\ httpPc[r] = "responding"
    /\ httpPc' = [httpPc EXCEPT ![r] = "done"]
    /\ upload' = [upload EXCEPT ![r] = "deleted"]
    /\ UNCHANGED <<caller, endpoint, raisedBy, status>>
    /\ UNCHANGED <<svcVars, reqVars>>

\* --------------------------------------------------------- specifications
\* The service with its lifecycle and one call at a time, on small inputs.
Next ==
    \/ StartupEvent
    \/ Initialize
    \/ LoadWhisperModel
    \/ LoadDiarizationPipeline
    \/ LoadAlignmentModel
    \/ Cleanup
    \/ CallTranscribeWithDiarization
    \/ PreprocessAudio
    \/ TranscribeAudio(LifeSegmentLists)
    \/ PerformDiarization(LifeTurnLists)
    \/ Align
    \/ Respond
    \/ CallTranscribeSimple
    \/ SimpleLoad
    \/ SimpleTranscribe(LifeSegmentLists)
    \/ Finish

Spec == Init /\ [][Next]_vars

\* The service after a successful initialize(): the whisper and alignment
\* handles are set, the diarization handle is a pipeline or None.
InitAlign ==
    /\ transcription_service = TRUE
    /\ whisper_model = TRUE
    /\ diarization_pipeline \in BOOLEAN
    /\ align_model = TRUE
    /\ align_metadata = TRUE
    /\ is_initialized = TRUE
    /\ initPc = "idle"
    /\ lifecycle = "init_returned"
    /\ IdleRequest
    /\ IdleHttp

\* One transcribe_with_diarization call on a transcript of at most one
\* segment and every bounded turn list, with the alignment applied a second
\* time to the same arguments.
NextAlign ==
    \/ CallTranscribeWithDiarization
    \/ PreprocessAudio
    \/ TranscribeAudio(SingleSegmentLists)
    \/ PerformDiarization(TurnLists)
    \/ Align
    \/ AlignAgain
    \/ Respond

SpecAlign == InitAlign /\ [][NextAlign]_vars

\* One transcribe_with_diarization call on every bounded transcript and a
\* few turn lists.
NextOrder ==
    \/ CallTranscribeWithDiarization
    \/ PreprocessAudio
    \/ TranscribeAudio(SegmentLists)
    \/ PerformDiarization(FewTurnLists)
    \/ Align
    \/ Respond

SpecOrder == InitAlign /\ [][NextOrder]_vars


\* One transcribe_simple call on every bounded transcript.
NextSimple ==
    \/ CallTranscribeSimple
    \/ SimpleLoad
    \/ SimpleTranscribe(SegmentLists)

SpecSimple == InitAlign /\ [][NextSimple]_vars

\* The application: startup, shutdown and concurrent HTTP requests to the
\* two transcription routes.
NextHttp ==
    \/ StartupEvent
    \/ LoadWhisperModel
    \/ LoadDiarizationPipeline
    \/ LoadAlignmentModel
    \/ Cleanup
    \/ \E r \in Requests : HttpEnter(r)
    \/ \E r \in Requests : HttpRead(r)
    \/ PreprocessAudio
    \/ TranscribeAudio(LifeSegmentLists)
    \/ PerformDiarization(LifeTurnLists)
    \/ Align
    \/ Respond
    \/ SimpleLoad
    \/ SimpleTranscribe(LifeSegmentLists)
    \/ \E r \in Requests : HttpRespond(r)
    \/ \E r \in Requests : BackgroundTask(r)

SpecHttp == Init /\ [][NextHttp]_vars

\* ------------------------------------------------- alignment: properties
Indices(seq) == 1..Len(seq)

\* The alignment has run on the current arguments.
Aligned == align_calls >= 1

\* Turn k of the pipeline's output has the greatest overlap with seg.
MaximalTurn(seg, k) ==
    \A j \in Indices(diarization) :
        Overlap(seg, diarization[j]) <= Overlap(seg, diarization[k])

HasOverlap(seg) ==
    \E k \in Indices(diarization) : Overlap(seg, diarization[k]) > 0

\* Indices of the turns of greatest, positive overlap with seg.
BestTurns(seg) ==
    {k \in Indices(diarization) :
        Overlap(seg, diarization[k]) > 0 /\ MaximalTurn(seg, k)}

PairwiseDisjoint(turns) ==
    \A j, k \in Indices(turns) :
        j # k => Min(turns[j].end, turns[k].end)
                   <= Max(turns[j].start, turns[k].start)

Contains(turn, seg) == turn.start <= seg.start /\ seg.end <= turn.end

\* C1: every output segment that some turn overlaps carries the speaker of
\* a turn of greatest overlap; when the turns are pairwise disjoint and
\* exactly one of them contains the segment, it carries that turn's speaker.
C1_MaxOverlapSpeaker ==
    Aligned =>
      \A i \in Indices(aligned_segments) :
        LET seg == aligned_segments[i] IN
        HasOverlap(seg) =>
          /\ \E k \in BestTurns(seg) : seg.speaker = diarization[k].speaker
          /\ \A k \in Indices(diarization) :
                ( /\ PairwiseDisjoint(diarization)
                  /\ Contains(diarization[k], seg)
                  /\ \A j \in Indices(diarization) :
                        Contains(diarization[j], seg) => j = k )
                => seg.speaker = diarization[k].speaker

\* A segment overlapped by two turns of different speakers, the greater
\* overlap with the one scanned later, got the later one's speaker.
C1_Witness ==
    /\ Aligned
    /\ \E i \in Indices(aligned_segments) :
        \E j, k \in Indices(diarization) :
          /\ Overlap(aligned_segments[i], diarization[j]) > 0
          /\ Overlap(aligned_segments[i], diarization[k])
                > Overlap(aligned_segments[i], diarization[j])
          /\ diarization[j].start <= diarization[k].start
          /\ diarization[j].speaker # diarization[k].speaker
          /\ aligned_segments[i].speaker = diarization[k].speaker

\* C2: when several turns tie for the greatest (positive) overlap with a
\* segment, the segment carries the speaker of a tied turn of earliest
\* start, in whatever order the pipeline yielded the turns.
C2_TieEarlierStart ==
    Aligned =>
      \A i \in Indices(aligned_segments) :
        LET seg == aligned_segments[i] IN
        Cardinality(BestTurns(seg)) >= 2 =>
          \E k \in BestTurns(seg) :
            /\ \A j \in BestTurns(seg) :
                  diarization[k].start <= diarization[j].start
            /\ seg.speaker = diarization[k].speaker

\* Two tied turns of different speakers, the later-starting one passed
\* first: the segment got the earlier-starting turn's speaker.
C2_Witness ==
    /\ Aligned
    /\ Len(diarization) >= 2
    /\ diarization[1].start > diarization[2].start
    /\ diarization[1].speaker # diarization[2].speaker
    /\ \E i \in Indices(aligned_segments) :
          /\ BestTurns(aligned_segments[i]) = {1, 2}
          /\ aligned_segments[i].speaker = diarization[2].speaker

\* C3: an output segment that no turn overlaps carries the sentinel
\* speaker; with the pipeline handle absent the turn list is empty, the
\* call raises nothing and every output segment carries the sentinel.
C3_DefaultSpeaker ==
    /\ Aligned =>
         \A i \in Indices(aligned_segments) :
            ~HasOverlap(aligned_segments[i])
               => aligned_segments[i].speaker = DefaultSpeaker
    /\ (reqPc \in {"align", "respond", "returned"} /\ ~diarization_pipeline) =>
         /\ diarization_result = <<>>
         /\ error = "none"
         /\ \A i \in Indices(aligned_segments) :
               aligned_segments[i].speaker = DefaultSpeaker

\* A segment that only a non-overlapping turn of another speaker
\* accompanies got the sentinel speaker.
C3_Witness ==
    /\ Aligned
    /\ \E i \in Indices(aligned_segments) :
          /\ ~HasOverlap(aligned_segments[i])
          /\ \E k \in Indices(diarization) :
                diarization[k].speaker # DefaultSpeaker
          /\ aligned_segments[i].speaker = DefaultSpeaker

\* t is s without its leading and trailing spaces.
IsTrimOf(t, s) ==
    \E a \in 1..(Len(s) + 1) : \E b \in 0..Len(s) :
        /\ t = SubSeq(s, a, b)
        /\ \A n \in Indices(s) : (n < a \/ n > b) => s[n] = " "
        /\ t # <<>> => (t[1] # " " /\ t[Len(t)] # " ")

HasText(seg) == \E n \in Indices(seg.text) : seg.text[n] # " "

KeptSegments == SelectSeq(transcription_result, HasText)

\* C4: the output is the input segments that have a non-space character,
\* in input order, each with its start, its end and its trimmed text.
C4_OrderPreserved ==
    Aligned =>
      /\ Len(aligned_segments) = Len(KeptSegments)
      /\ \A i \in Indices(aligned_segments) :
            /\ aligned_segments[i].start = KeptSegments[i].start
            /\ aligned_segments[i].end = KeptSegments[i].end
            /\ IsTrimOf(aligned_segments[i].text, KeptSegments[i].text)
            /\ aligned_segments[i].text # <<>>

\* A whitespace-only segment was dropped ahead of a kept segment whose
\* text was trimmed.
C4_Witness ==
    /\ Aligned
    /\ Len(transcription_result) = 2
    /\ ~HasText(transcription_result[1])
    /\ Len(aligned_segments) = 1
    /\ aligned_segments[1].text # transcription_result[2].text

ResponseSpeakers ==
    {sp \in Speakers \cup {DefaultSpeaker} :
        \E i \in Indices(response.transcription) :
            response.transcription[i].speaker = sp}

Returned == reqKind = "diarization" /\ reqPc = "returned"

\* C5 (amended): speakers_count is the number of distinct speaker labels in
\* the response's transcription list; with an empty turn list and a
\* transcript that has at least one segment of non-empty trimmed text it
\* is 1.
C5_SpeakersCount ==
    Returned =>
      /\ response.status = "success"
      /\ response.speakers_count = Cardinality(ResponseSpeakers)
      /\ (diarization_result = <<>> /\ KeptSegments # <<>>)
            => response.speakers_count = 1

\* C5 as stated: with an empty turn list and a non-empty transcript
\* speakers_count is 1.
C5_Original ==
    Returned =>
      /\ response.speakers_count = Cardinality(ResponseSpeakers)
      /\ (diarization_result = <<>> /\ transcription_result # <<>>)
            => response.speakers_count = 1

\* Two output segments of the same speaker and a turn list naming two
\* speakers: the response counts one.
C5_Witness ==
    /\ Returned
    /\ Len(response.transcription) = 2
    /\ response.speakers_count = 1
    /\ \E j, k \in Indices(diarization) :
          diarization[j].speaker # diarization[k].speaker

\* C6: a second alignment call on the same two arguments returns what the
\* first call returned.
C6_Idempotent ==
    align_calls = 2 => aligned_segments = previous_aligned

\* The second call ran on a turn list the first call had reordered, with
\* tied turns of different speakers.
C6_Witness ==
    /\ align_calls = 2
    /\ diarization_result # diarization
    /\ \E i \in Indices(aligned_segments) :
          \E j, k \in BestTurns(aligned_segments[i]) :
             diarization[j].speaker # diarization[k].speaker


\* ------------------------------------------------- lifecycle: properties
Handles == <<whisper_model, diarization_pipeline, align_model>>

\* A service call enters its method in this step.
Enters == reqPc = "idle" /\ reqPc' # "idle"

\* C7 as stated: a call entered in any lifecycle state other than "the
\* latest lifecycle call was an initialize() that returned" raises the
\* not-ready error at once, before the preprocessing or any model call.
C7_FailFast ==
    [][(Enters /\ lifecycle # "init_returned")
          => (reqPc' = "raised" /\ error' = "not_ready")]_vars

\* C8 as stated: once cleanup() has finished, the three model handles are
\* None and is_initialized is false.
C8_CleanupReleases ==
    lifecycle = "cleaned" =>
        /\ ~whisper_model
        /\ ~diarization_pipeline
        /\ ~align_model
        /\ ~is_initialized

\* C9 as stated: no initialize() call starts the model loads while the
\* service is initializing or already initialized.
C9_InitializeOnce ==
    [][(initPc' = "load_whisper" /\ initPc # "load_whisper")
          => (initPc = "idle" /\ ~is_initialized)]_vars

C11_TempFileReleased ==
    ( /\ reqKind = "diarization"
      /\ reqPc \in {"returned", "raised"}
      /\ error \notin {"not_ready", "preprocess"} )
    => processed_audio # "exists"

\* The texts of segs, joined with one space between neighbours.
RECURSIVE JoinTexts(_)
JoinTexts(segs) ==
    IF segs = <<>> THEN <<>>
    ELSE IF Len(segs) = 1 THEN Head(segs).text
    ELSE Head(segs).text \o <<" ">> \o JoinTexts(Tail(segs))

SimpleReturned == reqKind = "simple" /\ reqPc = "returned"

\* C15: the transcription list of transcribe_simple is the transcriber's
\* segments that have a non-space character, in order, each with its
\* trimmed text; full_text is those trimmed texts joined by single spaces,
\* without leading or trailing space.
C15_SimpleFullText ==
    SimpleReturned =>
      /\ Len(response.transcription) = Len(KeptSegments)
      /\ \A i \in Indices(response.transcription) :
            /\ response.transcription[i].start = KeptSegments[i].start
            /\ response.transcription[i].end = KeptSegments[i].end
            /\ IsTrimOf(response.transcription[i].text, KeptSegments[i].text)
            /\ response.transcription[i].text # <<>>
      /\ response.full_text = JoinTexts(response.transcription)
      /\ response.full_text # <<>> =>
            /\ response.full_text[1] # " "
            /\ response.full_text[Len(response.full_text)] # " "

\* Two kept segments, the second one trimmed: full_text is the two
\* trimmed texts and one space.
C15_Witness ==
    /\ SimpleReturned
    /\ Len(response.transcription) = 2
    /\ response.transcription[2].text # transcription_result[2].text
    /\ Len(response.full_text)
          = Len(response.transcription[1].text)
            + Len(response.transcription[2].text) + 1

\* The order of the positions of a transcribe_with_diarization call.
StageEdges ==
    { <<"idle", "preprocess">>, <<"preprocess", "transcribe">>,
      <<"transcribe", "diarize">>, <<"diarize", "align">>,
      <<"align", "respond">>, <<"respond", "returned">>,
      <<"idle", "raised">>, <<"preprocess", "raised">>,
      <<"transcribe", "raised">>, <<"diarize", "raised">>,
      <<"align", "raised">>, <<"returned", "idle">>, <<"raised", "idle">> }

\* C16: a transcribe_with_diarization call moves through preprocess,
\* transcribe, diarize, align in that order, each once; a stage that raises
\* ends the call with the error raised and no response, and a response
\* only exists once the call has returned.
C16_StageOrder ==
    [][ (reqKind' = "diarization" \/ reqKind = "diarization") =>
          /\ reqPc' # reqPc => <<reqPc, reqPc'>> \in StageEdges
          /\ reqPc' = "raised" => (response' = NoResponse /\ error' # "none")
          /\ response' # NoResponse => (reqPc' = "returned" /\ error' = "none")
      ]_vars

\* The diarization stage raised after preprocessing and transcription ran:
\* the call ended there, without a response.
C16_Witness ==
    /\ reqKind = "diarization"
    /\ reqPc = "raised"
    /\ error = "diarize"
    /\ transcription_result # <<>>
    /\ aligned_segments = <<>>
    /\ response = NoResponse

\* C17 as stated: an alignment call leaves its two arguments, the
\* transcript segment list and the diarization turn list, as they were.
C17_InputsUnmodified ==
    [][align_calls' = align_calls + 1 =>
          /\ transcription_result' = transcription_result
          /\ diarization_result' = diarization_result]_vars


\* ----------------------------------------------- HTTP layer: properties
\* C12 as stated: once a request's handler and its background task are
\* over, the upload temp file it created is gone, and the file a running
\* service call works on is the calling request's own.
C12_UploadReleased ==
    /\ \A r \in Requests : httpPc[r] = "done" => upload[r] # "exists"
    /\ reqPc # "idle" => (caller \in Requests /\ upload[caller] = "exists")

\* C13 as stated: a request whose service call raised the not-ready error
\* is answered with status 503.
C13_NotReadyIs503 ==
    \A r \in Requests : raisedBy[r] = "not_ready" => status[r] = 503

Calling == {r \in Requests : httpPc[r] = "calling"}

\* C14: at any time at most one request is inside a service call, hence
\* inside whisper_model.transcribe or the diarization pipeline, and it is
\* the request the running call belongs to.
C14_ModelCallsSerialized ==
    /\ Cardinality(Calling) <= 1
    /\ \A r \in Calling : caller = r
    /\ reqPc # "idle" => caller \in Calling

\* One request is inside whisper_model.transcribe while another one has
\* created its upload file and waits for its file.read().
C14_Witness ==
    /\ reqPc \in {"transcribe", "simple_transcribe"}
    /\ caller \in Requests
    /\ \E r \in Requests : r # caller /\ httpPc[r] = "reading"

====
